---- MODULE Spec2Model ----
(***************************************************************************)
(* The event-streaming layer of backend/shared/shared/messaging:           *)
(* RedisStreamClient (the log client), EventPublisher and EventSubscriber, *)
(* over a store with the semantics of Redis streams and consumer groups    *)
(* (XADD, XGROUP CREATE, XREADGROUP, XACK).  Every store command is        *)
(* executed atomically by the store; a command issued while the store is   *)
(* unreachable raises in the caller and has no effect on the store: any    *)
(* call may find the store reachable (up) or not.                           *)
(*                                                                         *)
(* Spec        two subscribers of one group, a publisher of single events  *)
(* SpecFair    Spec under the event loop's scheduling, the store reachable *)
(* SpecCancel  Spec with the task of one subscriber open to cancellation   *)
(* SpecClient  calls made directly on a RedisStreamClient                  *)
(* SpecPub     EventPublisher.publish / publish_many beside one reader     *)
(***************************************************************************)
EXTENDS Integers, Sequences, FiniteSets, TLC

\* ------------------------------------------------------------------ bounds
MaxInputs == 4      \* publish and on() calls made on the subscribers' side (Spec)
MaxAppend == 10     \* appends made through the raw client (SpecClient)
MaxCalls == 4       \* group / read / ack calls of the raw client (SpecClient)
MaxEvents == 3      \* events handed to EventPublisher calls (SpecPub)
MaxRestarts == 1    \* start() calls after start() has ended (SpecRestart)
MaxReads == 2       \* group / read calls made beside the publisher (SpecPub)

\* ------------------------------------------------------- program constants
ReadCount == 10     \* count=10 of the subscriber's read_group call
TrimLen == 2        \* maxlen a caller passes to publish (SpecTrim)
MaxLen == 10000     \* maxlen default of RedisStreamClient.publish

Streams == {"task.created", "task.completed"}
Consumers == {"c1", "c2"}
None == "none"
NoCur == [stream |-> None, handler |-> None, ids |-> <<>>]
NoRet == [op |-> None]

VARIABLES
  \* the store
  log,            \* stream -> sequence of the message ids it holds, in log order
  lastId,         \* stream -> the last id the store generated for it
  groupExists,    \* stream -> the consumer group exists on it
  lastDelivered,  \* stream -> the group's last-delivered id
  pending,        \* stream -> the group's pending entries, <<id, consumer>>
  data,           \* stream -> the fields of the entries appended to it, by id
  \* the subscribers (one per consumer name, all in the same group)
  handlers,       \* self.handlers: sequence of [stream, handler], insertion order
  running,        \* self._running
  pc,             \* where start() is
  iter,           \* the dict iterator of the group-creation loop: [idx, size]
  batch,          \* the stream groups of the read result not yet reached
  cur,            \* the stream group being dispatched: [stream, handler, ids]
  failKind,       \* the exception that left start(), or None
  reqStreams,     \* the streams of the read_group call in flight
  \* the publisher
  published,      \* number of appends made
  nregs,          \* number of on() calls made
  \* history
  received,       \* consumer -> messages read_group(">") returned to it
  dispatched,     \* consumer -> sequence of handler invocations <<stream, id, handler>>
  handledOk,      \* consumer -> messages whose handler returned
  raised,         \* consumer -> messages whose handler raised
  ackCalled,      \* consumer -> messages the subscriber called ack for
  acked,          \* consumer -> messages its ack call went through for (no exception)
  groupCalled,    \* consumer -> streams start() called create_consumer_group for
  readIssued,     \* consumer -> streams passed to a read_group call by start()
  createdAt,      \* stream -> lastId when the group was created (-1 before)
  rebound,        \* consumer -> streams on() was called for since the read result
                  \* in hand was returned
  stopCalled,     \* consumer -> stop() was called during start() and no while
                  \* test or exit of start() has followed yet
  issuedAfterStop, \* consumer -> the read_group call in flight was issued although
                  \* stop() had been called during start()
  cancelled,      \* consumer -> the task running start() was cancelled
  interrupted,    \* consumer -> messages whose handler call the cancellation cut short
  restarts,       \* number of start() calls made on a subscriber whose start() had ended
  backlog,        \* messages appended to a stream that had its group while no
                  \* start() was under way
  \* the publisher's caller
  pub,            \* the EventPublisher call made last: its events, the ids
                  \* collected, the append attempts made, how it ended
  npub,           \* number of events handed to EventPublisher calls
  \* the raw client
  ret,            \* the last raw client call and what it returned
  createRets,     \* stream -> what its create_consumer_group calls returned, in order
  ncalls          \* number of raw client calls made

storeVars == <<log, lastId, groupExists, lastDelivered, pending, createdAt, data>>
subVars == <<handlers, running, pc, iter, batch, cur, failKind>>
histVars == <<received, dispatched, handledOk, raised, ackCalled, acked,
              groupCalled>>
issueVars == <<reqStreams, readIssued, issuedAfterStop, stopCalled, rebound>>
clientVars == <<ret, createRets, ncalls>>
cancelVars == <<cancelled, interrupted>>
restartVars == <<restarts, backlog>>
pubVars == <<pub, npub>>
vars == <<storeVars, subVars, published, nregs, histVars, issueVars, cancelVars, restartVars,
          pubVars, clientVars>>

\* ------------------------------------------------------------------ helpers
Min(a, b) == IF a < b THEN a ELSE b

RECURSIVE SetToSeq(_)
SetToSeq(S) ==
  IF S = {} THEN <<>>
  ELSE LET m == CHOOSE x \in S : \A y \in S : x <= y
       IN <<m>> \o SetToSeq(S \ {m})

Range(q) == {q[i] : i \in DOMAIN q}

\* ------------------------------------------------------------------ events
\* A field value of an event: [t, n, s] holds its Python type, and the number
\* or the characters that tell it from the other values of that type.
Uuid(n) == [t |-> "uuid", n |-> n, s |-> ""]
Text(x) == [t |-> "str", n |-> 0, s |-> x]
Float(n) == [t |-> "float", n |-> n, s |-> ""]
Time(n) == [t |-> "datetime", n |-> n, s |-> ""]
NoValue == [t |-> "none", n |-> 0, s |-> ""]
\* A list of UUIDs: empty (n = 0) or holding the one UUID n.
UuidList(n) == [t |-> "list", n |-> n, s |-> ""]

\* A str: the characters x, or the text Python prints for the value n of kind k.
Chars(x) == [k |-> "chars", n |-> 0, s |-> x]
Printed(k, n) == [k |-> k, n |-> n, s |-> ""]

\* str(v): a str is itself, None gives the characters None, an empty list
\* gives [], a list gives the repr of its items, the rest its printed text.
Str(v) ==
  CASE v.t = "str" -> Chars(v.s)
    [] v.t = "none" -> Chars("None")
    [] v.t = "list" -> IF v.n = 0 THEN Chars("[]") ELSE Printed("list of UUID repr", v.n)
    [] OTHER -> Printed(v.t, v.n)

\* TaskCreatedEvent and TaskCompletedEvent, the defaults of the class filled in
TaskCreatedEvent(i, title, assignee, skills) ==
  [event_id |-> Uuid(i), timestamp |-> Time(i), event_type |-> Text("task.created"),
   project_id |-> Uuid(10), task_id |-> Uuid(20 + i), title |-> Text(title),
   assigned_to_user_id |-> assignee, priority |-> Text("medium"),
   estimated_hours |-> NoValue, required_skills |-> skills]

TaskCompletedEvent(i) ==
  [event_id |-> Uuid(i), timestamp |-> Time(i), event_type |-> Text("task.completed"),
   project_id |-> Uuid(10), task_id |-> Uuid(20 + i),
   completed_by_user_id |-> Uuid(30), actual_hours |-> Float(2)]

\* The events handed to the publisher.
PubEvents ==
  { TaskCreatedEvent(1, "x", NoValue, UuidList(0)),
    TaskCreatedEvent(2, "None", Uuid(30), UuidList(40)),
    TaskCompletedEvent(3) }

\* Event.to_stream_data: {k: str(v) for k, v in self.model_dump().items()}
ToStreamData(e) == [k \in DOMAIN e |-> Str(e[k])]

\* Mutant: every event goes to the task.created stream.
StreamNameFixed(e) == "task.created"

\* stream_name = event.event_type
StreamName(e) == e.event_type.s

\* The event a publish call of the subscribers' side carries, by its type.
EventOfType(s) == CHOOSE e \in PubEvents : StreamName(e) = s /\ e.event_id.n # 2

NoPub ==
  [op |-> None, events |-> <<>>, k |-> 0, ids |-> <<>>, attempts |-> 0,
   status |-> "idle", base |-> [s \in Streams |-> 0]]

\* --------------------------------------------------------------- the store
\* XADD stream * fields MAXLEN ~ maxlen: the new id follows the last generated
\* one; approximate trimming may drop oldest entries, never below maxlen.
AppendedLog(s, maxlen, drop) ==
  LET grown == Append(log[s], lastId[s] + 1)
  IN SubSeq(grown, drop + 1, Len(grown))

TrimChoices(s, maxlen) ==
  IF Len(log[s]) + 1 > maxlen THEN 0 .. (Len(log[s]) + 1 - maxlen) ELSE {0}

\* RedisStreamClient.publish(stream, data, maxlen): returns the new id
StorePublish(s, fields, maxlen) ==
  /\ \E drop \in TrimChoices(s, maxlen) :
       log' = [log EXCEPT ![s] = AppendedLog(s, maxlen, drop)]
  /\ lastId' = [lastId EXCEPT ![s] = @ + 1]
  /\ data' = [data EXCEPT ![s] = Append(@, fields)]

\* XGROUP CREATE stream group id MKSTREAM: "$" is the last generated id.
StartCursor(s, start_id) == IF start_id = "$" THEN lastId[s] ELSE 0

\* RedisStreamClient.create_consumer_group: True when created, False on
\* BUSYGROUP, which leaves the group as it is.
CreateReturns(s) == ~groupExists[s]

\* Mutant: creating an existing group moves its cursor to start_id.
GroupCursorReset(s, start_id) == StartCursor(s, start_id)

\* Mutant: creating a group that exists puts its cursor back to the beginning.
GroupCursorRewound(s, start_id) ==
  IF groupExists[s] THEN 0 ELSE StartCursor(s, start_id)

GroupCursorAfterCreate(s, start_id) ==
  IF groupExists[s] THEN lastDelivered[s] ELSE StartCursor(s, start_id)

GroupPendingAfterCreate(s) == pending[s]

StoreCreateGroup(s, start_id) ==
  /\ groupExists' = [groupExists EXCEPT ![s] = TRUE]
  /\ lastDelivered' = [lastDelivered EXCEPT ![s] = GroupCursorAfterCreate(s, start_id)]
  /\ pending' = [pending EXCEPT ![s] = GroupPendingAfterCreate(s)]
  /\ createdAt' = [createdAt EXCEPT ![s] = IF groupExists[s] THEN @ ELSE lastId[s]]

\* Mutant: the read ignores the group's last-delivered id.
NewIdsFromStart(s, count) == SubSeq(log[s], 1, Min(count, Len(log[s])))

\* Mutant: the read returns the new entries newest first.
NewIdsNewestFirst(s, count) ==
  LET fresh == SelectSeq(log[s], LAMBDA i : i > lastDelivered[s])
      n == Min(count, Len(fresh))
  IN [i \in 1 .. n |-> fresh[n + 1 - i]]

\* XREADGROUP ... STREAMS s >: the entries after the group's last-delivered id,
\* at most count of them, in log order.
\* Mutant: the read also returns the entries of the group that are still pending.
NewIdsWithPending(s, count) ==
  LET fresh == SelectSeq(log[s], LAMBDA i : i > lastDelivered[s] \/ i \in {p[1] : p \in pending[s]})
  IN SubSeq(fresh, 1, Min(count, Len(fresh)))

NewIds(s, count) ==
  LET fresh == SelectSeq(log[s], LAMBDA i : i > lastDelivered[s])
  IN SubSeq(fresh, 1, Min(count, Len(fresh)))

\* Mutant: delivering does not move the cursor.
CursorAfterReadStuck(s, ids) == lastDelivered[s]

\* The cursor after delivering ids.
CursorAfterRead(s, ids) == IF ids = <<>> THEN lastDelivered[s] ELSE ids[Len(ids)]

\* Mutant: delivered entries are not recorded as pending.
PendingAfterReadUnrecorded(s, c, ids) == pending[s]

\* Mutant: delivered entries are recorded as pending for the consumer c1.
PendingAfterReadForOne(s, c, ids) == pending[s] \cup {<<i, "c1">> : i \in Range(ids)}

\* The pending entries after delivering ids to consumer c.
PendingAfterRead(s, c, ids) == pending[s] \cup {<<i, c>> : i \in Range(ids)}

\* XREADGROUP ... STREAMS s <id>: the consumer's own pending entries after id.
PendingIds(s, c, after, count) ==
  LET mine == SetToSeq({e[1] : e \in {p \in pending[s] : p[2] = c /\ p[1] > after}})
  IN SubSeq(mine, 1, Min(count, Len(mine)))

\* The read raises: store unreachable, no stream given, or NOGROUP for one of them.
ReadRaises(ss, up) == ~up \/ ss = <<>> \/ \E i \in DOMAIN ss : ~groupExists[ss[i]]

RECURSIVE ReadResult(_, _)
\* RedisStreamClient.read_group with ">" for every stream of ss: one
\* [stream, ids] per stream that has new entries, in the order of ss.
ReadResult(ss, count) ==
  IF ss = <<>> THEN <<>>
  ELSE LET s == Head(ss)
           ids == NewIds(s, count)
       IN (IF ids = <<>> THEN <<>> ELSE <<[stream |-> s, ids |-> ids]>>)
          \o ReadResult(Tail(ss), count)

StoreReadGroup(c, ss, count) ==
  /\ lastDelivered' = [s \in Streams |->
       IF s \in Range(ss) THEN CursorAfterRead(s, NewIds(s, count)) ELSE lastDelivered[s]]
  /\ pending' = [s \in Streams |->
       IF s \in Range(ss) THEN PendingAfterRead(s, c, NewIds(s, count)) ELSE pending[s]]

\* XACK stream group ids: the ids that are pending are removed; returns how many.
PendingIdSet(s) == {p[1] : p \in pending[s]}

\* Mutant: ack returns the number of ids it was given.
AckCountGiven(s, ids) == Cardinality(ids)

AckCount(s, ids) == Cardinality(ids \cap PendingIdSet(s))

\* Mutant: an acknowledged entry stays in the pending set.
PendingAfterAckKept(s, ids) == pending[s]

PendingAfterAck(s, ids) == {p \in pending[s] : p[1] \notin ids}

StoreAck(s, ids) ==
  pending' = [pending EXCEPT ![s] = PendingAfterAck(s, ids)]

\* ------------------------------------------------------------ the subscriber
Msg(k) == <<k.stream, Head(k.ids)>>

StreamsOf(hs) == [i \in DOMAIN hs |-> hs[i].stream]

\* self.handlers.get(stream_name)
HandlerOf(hs, s) ==
  IF \E i \in DOMAIN hs : hs[i].stream = s
  THEN (CHOOSE e \in Range(hs) : e.stream = s).handler
  ELSE None

\* Mutant: a stream that has a handler keeps it.
RegisterKeepsFirst(hs, s, h) ==
  IF \E i \in DOMAIN hs : hs[i].stream = s THEN hs
  ELSE Append(hs, [stream |-> s, handler |-> h])

\* self.handlers[stream] = handler: a registered stream keeps its place, its
\* handler is replaced; a new stream is added last.
Register(hs, s, h) ==
  IF \E i \in DOMAIN hs : hs[i].stream = s
  THEN [i \in DOMAIN hs |-> IF hs[i].stream = s THEN [stream |-> s, handler |-> h] ELSE hs[i]]
  ELSE Append(hs, [stream |-> s, handler |-> h])

\* The handler a further registration binds: another one than the one bound.
OtherHandler(hs, s) == IF HandlerOf(hs, s) = "h1" THEN "h2" ELSE "h1"

\* EventSubscriber.on(stream)(handler), on a subscriber whose start() has not
\* ended (afterwards nothing reads self.handlers any more).
On(c, s) ==
  /\ published + nregs < MaxInputs
  /\ pc[c] \notin {"stopped", "failed"}
  /\ nregs' = nregs + 1
  /\ handlers' = [handlers EXCEPT ![c] = Register(@, s, OtherHandler(@, s))]
  /\ rebound' = [rebound EXCEPT ![c] = IF pc[c] \in {"handler", "ack"} THEN @ \cup {s} ELSE @]
  /\ UNCHANGED <<storeVars, running, pc, iter, batch, cur, failKind, published,
                 histVars, reqStreams, readIssued, issuedAfterStop, stopCalled,
                 cancelVars, restartVars, pubVars, clientVars>>

\* The while test: the next read is issued while self._running holds.
LoopTop(isRunning) == IF isRunning THEN "read" ELSE "stopped"

\* start() has been invoked and has not ended.
InStart(c) == pc[c] \in {"registering", "read", "handler", "ack", "sleep"}

\* Where the step of c ends at the read_group call, the call is issued with
\* the streams registered by then (streams = {stream: ">" for stream in
\* self.handlers}) and stays in flight until ReadStep.
IssueRead(c) ==
  LET issued == pc'[c] = "read" IN
  /\ reqStreams' = [reqStreams EXCEPT ![c] =
       IF issued THEN StreamsOf(handlers[c]) ELSE <<>>]
  /\ readIssued' = [readIssued EXCEPT ![c] =
       IF issued THEN @ \cup Range(StreamsOf(handlers[c])) ELSE @]
  /\ issuedAfterStop' = [issuedAfterStop EXCEPT ![c] = issued /\ stopCalled[c]]
  /\ stopCalled' = [stopCalled EXCEPT ![c] =
       @ /\ pc'[c] \in {"registering", "handler", "ack", "sleep"}]
  /\ rebound' = [rebound EXCEPT ![c] = IF pc'[c] \in {"handler", "ack"} THEN @ ELSE {}]

\* Mutant: start() without the handlers test.
NoHandlersUnchecked(c) == FALSE

\* if not self.handlers: raise ValueError
NoHandlers(c) == handlers[c] = <<>>

\* EventSubscriber.start, up to the first create_consumer_group call.
Start(c) ==
  /\ pc[c] = "created"
  /\ IF NoHandlers(c)
     THEN /\ pc' = [pc EXCEPT ![c] = "failed"]
          /\ failKind' = [failKind EXCEPT ![c] = "ValueError"]
          /\ UNCHANGED iter
          /\ UNCHANGED running
     ELSE IF handlers[c] # <<>>
     THEN /\ pc' = [pc EXCEPT ![c] = "registering"]
          /\ iter' = [iter EXCEPT ![c] = [idx |-> 1, size |-> Len(handlers[c])]]
          /\ UNCHANGED <<failKind, running>>
     ELSE \* the for loop has nothing to go through
          /\ running' = [running EXCEPT ![c] = TRUE]
          /\ pc' = [pc EXCEPT ![c] = LoopTop(TRUE)]
          /\ UNCHANGED <<failKind, iter>>
  /\ IssueRead(c)
  /\ UNCHANGED <<storeVars, handlers, batch, cur, published, nregs,
                 histVars, cancelVars, restartVars, pubVars, clientVars>>

RECURSIVE NextDispatch(_, _, _)
\* The two for loops over the read result: b holds the stream groups not yet
\* reached, k the group being dispatched.  The handler of a stream is looked up
\* when its group is reached; a stream without handler is skipped.
NextDispatch(c, b, k) ==
  IF k.ids # <<>> THEN [pc |-> "handler", batch |-> b, cur |-> k]
  ELSE IF b # <<>>
  THEN LET h == HandlerOf(handlers[c], Head(b).stream)
       IN IF h = None
          THEN NextDispatch(c, Tail(b), NoCur)
          ELSE NextDispatch(c, Tail(b),
                 [stream |-> Head(b).stream, handler |-> h, ids |-> Head(b).ids])
  ELSE [pc |-> LoopTop(running[c]), batch |-> <<>>, cur |-> NoCur]

\* Move on to nx; entering "handler" is the handler's invocation.
Proceed(c, nx) ==
  /\ pc' = [pc EXCEPT ![c] = nx.pc]
  /\ batch' = [batch EXCEPT ![c] = nx.batch]
  /\ cur' = [cur EXCEPT ![c] = nx.cur]
  /\ dispatched' = [dispatched EXCEPT ![c] =
       IF nx.pc = "handler" THEN Append(@, <<nx.cur.stream, Head(nx.cur.ids), nx.cur.handler>>)
       ELSE @]

\* Mutant: the flag is tested after each message and the rest of the batch is
\* left where it is.
AfterMessageStopAware(c) ==
  IF running[c] THEN NextDispatch(c, batch[c], [cur[c] EXCEPT !.ids = Tail(@)])
  ELSE [pc |-> "stopped", batch |-> <<>>, cur |-> NoCur]

\* The rest of the batch once the message in hand is done with.
AfterMessage(c) == NextDispatch(c, batch[c], [cur[c] EXCEPT !.ids = Tail(@)])

\* Mutant: start() creates its groups from the beginning of the stream.
GroupStartIdZero == "0"

\* start_id="$" of the create_consumer_group call of start()
GroupStartId == "$"

\* One create_consumer_group(stream, group, start_id="$") call of the for loop
\* returns or raises; then the loop takes its next key, or start() goes on to
\* self._running = True and the first read_group call.
\* Mutant: start() logs the failed group creation and enters the loop.
PcAfterCreateErrorLoop == "read"

\* No try around create_consumer_group in start(): what it raises leaves
\* start().
PcAfterCreateError == "failed"

CreateGroupStep(c, up) ==
  /\ pc[c] = "registering"
  /\ LET s == handlers[c][iter[c].idx].stream IN
     /\ groupCalled' = [groupCalled EXCEPT ![c] = @ \cup {s}]
     /\ IF ~up
        THEN /\ pc' = [pc EXCEPT ![c] = PcAfterCreateError]
             /\ failKind' = [failKind EXCEPT ![c] = "ConnectionError"]
             /\ UNCHANGED <<storeVars, running, iter>>
        ELSE /\ StoreCreateGroup(s, GroupStartId)
             /\ UNCHANGED <<log, lastId, data>>
             /\ IF Len(handlers[c]) # iter[c].size
                THEN /\ pc' = [pc EXCEPT ![c] = "failed"]
                     /\ failKind' = [failKind EXCEPT ![c] = "RuntimeError"]
                     /\ UNCHANGED <<running, iter>>
                ELSE IF iter[c].idx < iter[c].size
                THEN /\ iter' = [iter EXCEPT ![c].idx = @ + 1]
                     /\ UNCHANGED <<pc, running, failKind>>
                ELSE /\ running' = [running EXCEPT ![c] = TRUE]
                     /\ pc' = [pc EXCEPT ![c] = LoopTop(TRUE)]
                     /\ UNCHANGED <<iter, failKind>>
  /\ IssueRead(c)
  /\ UNCHANGED <<handlers, batch, cur, published, nregs, received, dispatched,
                 handledOk, raised, ackCalled, acked, cancelVars, restartVars, pubVars, clientVars>>

\* Mutant: an exception of read_group ends the loop.
PcAfterReadErrorStopped == "stopped"

\* except Exception: log, then await asyncio.sleep(1)
PcAfterReadError == "sleep"

\* The read_group call of the loop returns: the result is dispatched from its
\* first message on; an exception of the call leads to the backoff sleep.
ReadStep(c, up) ==
  /\ pc[c] = "read"
  /\ LET ss == reqStreams[c] IN
     /\ IF ReadRaises(ss, up)
        THEN /\ pc' = [pc EXCEPT ![c] = PcAfterReadError]
             /\ UNCHANGED <<lastDelivered, pending, batch, cur, received, dispatched>>
        ELSE LET res == ReadResult(ss, ReadCount) IN
             /\ StoreReadGroup(c, ss, ReadCount)
             /\ received' = [received EXCEPT ![c] =
                  @ \cup UNION {{<<res[i].stream, id>> : id \in Range(res[i].ids)} : i \in DOMAIN res}]
             /\ Proceed(c, NextDispatch(c, res, NoCur))
  /\ IssueRead(c)
  /\ UNCHANGED <<log, lastId, data, groupExists, createdAt, handlers, running, iter,
                 failKind, published, nregs, handledOk, raised, ackCalled, acked,
                 groupCalled, cancelVars, restartVars, pubVars, clientVars>>

\* await asyncio.sleep(1) is over.
Wake(c) ==
  /\ pc[c] = "sleep"
  /\ pc' = [pc EXCEPT ![c] = LoopTop(running[c])]
  /\ IssueRead(c)
  /\ UNCHANGED <<storeVars, handlers, running, iter, batch, cur, failKind, published,
                 nregs, histVars, cancelVars, restartVars, pubVars, clientVars>>

\* Mutant: the ack call placed where it runs whatever the handler did.
AckIssuedAlways(outcome) == TRUE

\* Mutant: the loop goes on to the next message without the ack call.
AckIssuedNever(outcome) == FALSE

\* Inside the try: ack follows the handler call, so it is issued when the
\* handler returned and not when it raised.
AckIssuedAfter(outcome) == outcome = "returned"

\* Mutant: the handler's exception ends the loop.
AfterHandlerRaiseBreaks(nx) == [pc |-> "stopped", batch |-> <<>>, cur |-> NoCur]

\* except Exception: log the error; the inner for loop goes on.
AfterHandlerRaise(nx) == nx

\* The handler in flight returns or raises.
HandlerDone(c, outcome) ==
  /\ pc[c] = "handler"
  /\ handledOk' = [handledOk EXCEPT ![c] = IF outcome = "returned" THEN @ \cup {Msg(cur[c])} ELSE @]
  /\ raised' = [raised EXCEPT ![c] = IF outcome = "raised" THEN @ \cup {Msg(cur[c])} ELSE @]
  /\ IF AckIssuedAfter(outcome)
     THEN /\ pc' = [pc EXCEPT ![c] = "ack"]
          /\ ackCalled' = [ackCalled EXCEPT ![c] = @ \cup {Msg(cur[c])}]
          /\ UNCHANGED <<batch, cur, dispatched>>
     ELSE /\ Proceed(c, AfterHandlerRaise(AfterMessage(c)))
          /\ UNCHANGED ackCalled
  /\ IssueRead(c)
  /\ UNCHANGED <<storeVars, handlers, running, iter, failKind, published, nregs,
                 received, acked, groupCalled, cancelVars, restartVars, pubVars, clientVars>>

\* The ack call returns, or raises into the same except clause as the handler;
\* either way the inner for loop goes on.
AckStep(c, up) ==
  /\ pc[c] = "ack"
  /\ IF up
     THEN /\ StoreAck(cur[c].stream, {Head(cur[c].ids)})
          /\ acked' = [acked EXCEPT ![c] = @ \cup {Msg(cur[c])}]
     ELSE UNCHANGED <<pending, acked>>
  /\ Proceed(c, AfterMessage(c))
  /\ IssueRead(c)
  /\ UNCHANGED <<log, lastId, data, groupExists, lastDelivered, createdAt, handlers,
                 running, iter, failKind, published, nregs, received, handledOk, raised,
                 ackCalled, groupCalled, cancelVars, restartVars, pubVars, clientVars>>

\* Mutant: stop() ends start() at once, wherever it is.
PcAfterStopForced(c) == IF InStart(c) THEN "stopped" ELSE pc[c]

\* stop() only clears the flag: where start() is does not change.
PcAfterStop(c) == pc[c]

\* EventSubscriber.stop
Stop(c) ==
  /\ running' = [running EXCEPT ![c] = FALSE]
  /\ pc' = [pc EXCEPT ![c] = PcAfterStop(c)]
  /\ stopCalled' = [stopCalled EXCEPT ![c] = @ \/ InStart(c)]
  /\ UNCHANGED <<storeVars, handlers, iter, batch, cur, failKind, published, nregs,
                 histVars, reqStreams, readIssued, issuedAfterStop, rebound,
                 cancelVars, restartVars, pubVars, clientVars>>

\* A CancelledError raised at the await start() is at: inside the try of the
\* while loop (read_group, handler, ack) it is no Exception, so it passes the
\* inner except and is caught by except asyncio.CancelledError: break; at
\* create_consumer_group and at the sleep of the except clause nothing catches
\* it and it leaves start().
PcAfterCancel(c) == IF pc[c] \in {"read", "handler", "ack"} THEN "stopped" ELSE "failed"

\* The task running start() is cancelled while start() is at an await.  The
\* store call in flight, if any, is given up: it has no effect on the store.
Cancel(c) ==
  /\ InStart(c)
  /\ cancelled' = [cancelled EXCEPT ![c] = TRUE]
  /\ interrupted' = [interrupted EXCEPT ![c] =
       IF pc[c] = "handler" THEN @ \cup {Msg(cur[c])} ELSE @]
  /\ pc' = [pc EXCEPT ![c] = PcAfterCancel(c)]
  /\ failKind' = [failKind EXCEPT ![c] =
       IF PcAfterCancel(c) = "failed" THEN "CancelledError" ELSE @]
  /\ batch' = [batch EXCEPT ![c] = <<>>]
  /\ cur' = [cur EXCEPT ![c] = NoCur]
  /\ IssueRead(c)
  /\ UNCHANGED <<storeVars, handlers, running, iter, published, nregs, histVars,
                 restartVars, pubVars, clientVars>>

\* ------------------------------------------------------------- the publisher
\* EventPublisher.publish: one append to the stream named after the event type.
Publish(s) ==
  /\ published + nregs < MaxInputs
  /\ StorePublish(s, ToStreamData(EventOfType(s)), MaxLen)
  /\ published' = published + 1
  /\ UNCHANGED <<groupExists, lastDelivered, pending, createdAt, subVars,
                 nregs, histVars, issueVars, cancelVars, restartVars, pubVars, clientVars>>

\* ------------------------------------------------------------ specification
Init ==
  /\ log = [s \in Streams |-> <<>>]
  /\ lastId = [s \in Streams |-> 0]
  /\ groupExists = [s \in Streams |-> FALSE]
  /\ lastDelivered = [s \in Streams |-> 0]
  /\ pending = [s \in Streams |-> {}]
  /\ createdAt = [s \in Streams |-> -1]
  /\ handlers = [c \in Consumers |-> <<>>]
  /\ running = [c \in Consumers |-> FALSE]
  /\ pc = [c \in Consumers |-> "created"]
  /\ iter = [c \in Consumers |-> [idx |-> 0, size |-> 0]]
  /\ batch = [c \in Consumers |-> <<>>]
  /\ cur = [c \in Consumers |-> NoCur]
  /\ failKind = [c \in Consumers |-> None]
  /\ published = 0
  /\ nregs = 0
  /\ received = [c \in Consumers |-> {}]
  /\ dispatched = [c \in Consumers |-> <<>>]
  /\ handledOk = [c \in Consumers |-> {}]
  /\ raised = [c \in Consumers |-> {}]
  /\ ackCalled = [c \in Consumers |-> {}]
  /\ acked = [c \in Consumers |-> {}]
  /\ groupCalled = [c \in Consumers |-> {}]
  /\ readIssued = [c \in Consumers |-> {}]
  /\ reqStreams = [c \in Consumers |-> <<>>]
  /\ stopCalled = [c \in Consumers |-> FALSE]
  /\ rebound = [c \in Consumers |-> {}]
  /\ issuedAfterStop = [c \in Consumers |-> FALSE]
  /\ data = [s \in Streams |-> <<>>]
  /\ cancelled = [c \in Consumers |-> FALSE]
  /\ interrupted = [c \in Consumers |-> {}]
  /\ restarts = 0
  /\ backlog = {}
  /\ pub = NoPub
  /\ npub = 0
  /\ ret = NoRet
  /\ createRets = [s \in Streams |-> <<>>]
  /\ ncalls = 0

Next ==
  \/ \E c \in Consumers, s \in Streams : On(c, s)
  \/ \E c \in Consumers : Start(c)
  \/ \E c \in Consumers, up \in BOOLEAN : CreateGroupStep(c, up)
  \/ \E c \in Consumers, up \in BOOLEAN : ReadStep(c, up)
  \/ \E c \in Consumers : Wake(c)
  \/ \E c \in Consumers, outcome \in {"returned", "raised"} : HandlerDone(c, outcome)
  \/ \E c \in Consumers, up \in BOOLEAN : AckStep(c, up)
  \/ \E c \in Consumers : Stop(c)
  \/ \E s \in Streams : Publish(s)

Spec == Init /\ [][Next]_vars

\* The event loop runs start() on whenever it can go on: a sleep ends, a
\* handler in flight returns or raises, an ack call returns or raises; and the
\* store is reachable: a subscriber that keeps calling read_group has a call
\* find the store reachable again and again.
Fairness(c) ==
  /\ WF_vars(Wake(c))
  /\ WF_vars(\E outcome \in {"returned", "raised"} : HandlerDone(c, outcome))
  /\ WF_vars(\E up \in BOOLEAN : AckStep(c, up))
  /\ SF_vars(ReadStep(c, TRUE))

SpecFair == Spec /\ \A c \in Consumers : Fairness(c)

\* The subscribers, the task of one of them open to cancellation (which one
\* makes no difference: the subscribers differ by their names only).
Cancellable == {"c1"}

NextCancel ==
  \/ Next
  \/ \E c \in Cancellable : Cancel(c)

SpecCancel == Init /\ [][NextCancel]_vars

\* ---- One subscriber whose start() is called again after it has ended ----

\* The subscriber started again.
Restartable == {"c1"}

\* No start() is under way.
AllDown == \A c \in Consumers : ~InStart(c)

\* EventSubscriber.start called again on the subscriber (same handlers, same
\* group and consumer name) after start() has returned or raised: the same
\* code runs from its first line.
Restart(c) ==
  /\ pc[c] \in {"stopped", "failed"}
  /\ restarts < MaxRestarts
  /\ restarts' = restarts + 1
  /\ IF NoHandlers(c)
     THEN /\ pc' = [pc EXCEPT ![c] = "failed"]
          /\ failKind' = [failKind EXCEPT ![c] = "ValueError"]
          /\ UNCHANGED <<iter, running>>
     ELSE /\ pc' = [pc EXCEPT ![c] = "registering"]
          /\ iter' = [iter EXCEPT ![c] = [idx |-> 1, size |-> Len(handlers[c])]]
          /\ failKind' = [failKind EXCEPT ![c] = None]
          /\ UNCHANGED running
  \* what this start() invocation has called so far: nothing
  /\ groupCalled' = [groupCalled EXCEPT ![c] = {}]
  /\ readIssued' = [readIssued EXCEPT ![c] = {}]
  /\ reqStreams' = [reqStreams EXCEPT ![c] = <<>>]
  /\ issuedAfterStop' = [issuedAfterStop EXCEPT ![c] = FALSE]
  /\ stopCalled' = [stopCalled EXCEPT ![c] = FALSE]
  /\ rebound' = [rebound EXCEPT ![c] = {}]
  /\ UNCHANGED <<storeVars, handlers, batch, cur, published, nregs, received,
                 dispatched, handledOk, raised, ackCalled, acked, cancelVars,
                 backlog, pubVars, clientVars>>

\* EventPublisher.publish, the append noted when it is made while no start()
\* is under way on a stream that has its group.
PublishAt(s) ==
  /\ published + nregs < MaxInputs
  /\ StorePublish(s, ToStreamData(EventOfType(s)), MaxLen)
  /\ published' = published + 1
  /\ backlog' = IF AllDown /\ groupExists[s] THEN backlog \cup {<<s, lastId[s] + 1>>}
                ELSE backlog
  /\ UNCHANGED <<groupExists, lastDelivered, pending, createdAt, subVars,
                 nregs, histVars, issueVars, cancelVars, restarts, pubVars, clientVars>>

NextRestart ==
  \/ \E c \in Restartable, s \in Streams : On(c, s)
  \/ \E c \in Restartable : Start(c)
  \/ \E c \in Restartable, up \in BOOLEAN : CreateGroupStep(c, up)
  \/ \E c \in Restartable, up \in BOOLEAN : ReadStep(c, up)
  \/ \E c \in Restartable : Wake(c)
  \/ \E c \in Restartable, outcome \in {"returned", "raised"} : HandlerDone(c, outcome)
  \/ \E c \in Restartable, up \in BOOLEAN : AckStep(c, up)
  \/ \E c \in Restartable : Stop(c)
  \/ \E c \in Restartable : Restart(c)
  \/ \E s \in Streams : PublishAt(s)

SpecRestart == Init /\ [][NextRestart]_vars

\* ------------------------------------------------------------ the raw client
\* Calls made directly on a RedisStreamClient with the store reachable, one
\* stream per call.
ClientStreams == {"task.created"}
ClientCounts == {1, 5}
StartIds == {"0", "$"}

\* The id sets an ack call is given: one id or two, among the first ids.
AckIdSets == {{1}, {2}, {1, 2}, {2, 3}}

\* The data dict a raw publish call is given: one field.
RawFields == [title |-> Chars("x")]

\* RedisStreamClient.publish
CPublish(s) ==
  /\ published < MaxAppend
  /\ StorePublish(s, RawFields, MaxLen)
  /\ published' = published + 1
  /\ UNCHANGED <<groupExists, lastDelivered, pending, createdAt, subVars, nregs,
                 histVars, issueVars, cancelVars, restartVars, pubVars, clientVars>>

\* RedisStreamClient.create_consumer_group
CCreateGroup(s, start_id) ==
  /\ ncalls < MaxCalls
  /\ ncalls' = ncalls + 1
  /\ StoreCreateGroup(s, start_id)
  /\ ret' = [op |-> "create", stream |-> s, start |-> start_id, ok |-> TRUE,
             result |-> CreateReturns(s)]
  /\ createRets' = [createRets EXCEPT ![s] = Append(@, CreateReturns(s))]
  /\ UNCHANGED <<log, lastId, data, subVars, published, nregs, histVars, issueVars,
                 cancelVars, restartVars, pubVars>>

\* RedisStreamClient.read_group for one stream, with ">" or with the id "0"
CReadGroup(c, s, cursor, count) ==
  /\ ncalls < MaxCalls
  /\ ncalls' = ncalls + 1
  /\ LET call == [op |-> "read", consumer |-> c, stream |-> s, cursor |-> cursor,
                  count |-> count,
                  avail |-> IF cursor = ">" THEN Len(NewIds(s, Len(log[s]))) ELSE 0]
     IN IF ReadRaises(<<s>>, TRUE)
        THEN /\ ret' = call @@ [ok |-> FALSE]
             /\ UNCHANGED <<lastDelivered, pending, received>>
        ELSE IF cursor = ">"
        THEN /\ StoreReadGroup(c, <<s>>, count)
             /\ ret' = call @@ [ok |-> TRUE, result |-> NewIds(s, count)]
             /\ received' = [received EXCEPT ![c] =
                  @ \cup {<<s, i>> : i \in Range(NewIds(s, count))}]
        ELSE /\ ret' = call @@ [ok |-> TRUE, result |-> PendingIds(s, c, 0, count)]
             /\ UNCHANGED <<lastDelivered, pending, received>>
  /\ UNCHANGED <<log, lastId, data, groupExists, createdAt, subVars, published, nregs,
                 dispatched, handledOk, raised, ackCalled, acked, groupCalled,
                 issueVars, cancelVars, restartVars, pubVars, createRets>>

\* RedisStreamClient.ack
CAck(s, ids) ==
  /\ ncalls < MaxCalls
  /\ ncalls' = ncalls + 1
  /\ StoreAck(s, ids)
  /\ ret' = [op |-> "ack", stream |-> s, ids |-> ids, ok |-> TRUE,
             result |-> AckCount(s, ids)]
  /\ UNCHANGED <<log, lastId, data, groupExists, lastDelivered, createdAt, subVars,
                 published, nregs, histVars, issueVars, cancelVars, restartVars, pubVars, createRets>>

NextClient ==
  \/ \E s \in ClientStreams : CPublish(s)
  \/ \E s \in ClientStreams, start_id \in StartIds : CCreateGroup(s, start_id)
  \/ \E c \in Consumers, s \in ClientStreams, count \in ClientCounts :
       CReadGroup(c, s, ">", count)
  \/ \E c \in Consumers, s \in ClientStreams : CReadGroup(c, s, "0", ReadCount)
  \/ \E s \in ClientStreams, ids \in AckIdSets : CAck(s, ids)

SpecClient == Init /\ [][NextClient]_vars

\* ---- A caller of the raw client that appends with a small maxlen ----

\* RedisStreamClient.publish(stream, data, maxlen) called with maxlen given:
\* the append trims the stream to about maxlen entries, oldest first.
ClientPublishMaxlen(s, maxlen) ==
  /\ published < MaxAppend
  /\ StorePublish(s, RawFields, maxlen)
  /\ published' = published + 1
  /\ UNCHANGED <<groupExists, lastDelivered, pending, createdAt, subVars, nregs,
                 histVars, issueVars, cancelVars, restartVars, pubVars, clientVars>>

NextTrim ==
  \/ \E s \in ClientStreams : ClientPublishMaxlen(s, TrimLen)
  \/ \E s \in ClientStreams : CCreateGroup(s, "$")
  \/ \E s \in ClientStreams : CReadGroup("c1", s, ">", ReadCount)
  \/ \E s \in ClientStreams, ids \in AckIdSets : CAck(s, ids)

SpecTrim == Init /\ [][NextTrim]_vars

\* ------------------------------------------------- the publisher's caller
RECURSIVE EventSeqs(_)
\* The lists of at most n events.
EventSeqs(n) ==
  IF n = 0 THEN {<<>>}
  ELSE LET shorter == EventSeqs(n - 1)
       IN shorter \cup {Append(q, e) : q \in {x \in shorter : Len(x) = n - 1}, e \in PubEvents}

\* EventPublisher.publish(event) or publish_many(events) is called, no other
\* call of the publisher being under way: publish awaits its append,
\* publish_many starts its for loop (an empty list returns [] at once).
PubCall(op, es) ==
  /\ pub.status # "appending"
  /\ npub + Len(es) <= MaxEvents
  /\ npub' = npub + Len(es)
  /\ pub' = [op |-> op, events |-> es, k |-> 1, ids |-> <<>>, attempts |-> 0,
             status |-> IF es = <<>> THEN "returned" ELSE "appending",
             base |-> lastId]
  /\ UNCHANGED <<storeVars, subVars, published, nregs, histVars, issueVars,
                 cancelVars, restartVars, clientVars>>

\* Mutant: publish_many puts each new id in front of the ones it has.
CollectIdFirst(ids, id) == <<id>> \o ids

\* message_ids.append(msg_id); publish returns the one id
CollectId(ids, id) == Append(ids, id)

\* Mutant: publish_many logs a failed publish and goes on with the next event.
AfterAppendErrorSkipped(p) ==
  [p EXCEPT !.k = @ + 1,
            !.status = IF p.k = Len(p.events) THEN "returned" ELSE "appending"]

\* No try around the append: the exception leaves publish, and publish_many
\* with it.
AfterAppendError(p) == [p EXCEPT !.status = "raised"]

\* The append awaited by the publisher call under way returns the new id or
\* raises.
PubAppendStep(up) ==
  /\ pub.status = "appending"
  /\ LET e == pub.events[pub.k]
         s == StreamName(e)
         tried == [pub EXCEPT !.attempts = @ + 1]
     IN IF up
        THEN /\ StorePublish(s, ToStreamData(e), MaxLen)
             /\ published' = published + 1
             /\ pub' = [tried EXCEPT !.ids = CollectId(@, lastId[s] + 1),
                                      !.k = @ + 1,
                                      !.status = IF pub.k = Len(pub.events)
                                                 THEN "returned" ELSE "appending"]
        ELSE /\ pub' = AfterAppendError(tried)
             /\ UNCHANGED <<log, lastId, data, published>>
  /\ UNCHANGED <<groupExists, lastDelivered, pending, createdAt, subVars, nregs,
                 histVars, issueVars, cancelVars, restartVars, npub, clientVars>>

\* A publisher making publish and publish_many calls one after the other, and
\* a consumer group read by one consumer.
NextPub ==
  \/ \E e \in PubEvents : PubCall("publish", <<e>>)
  \/ \E es \in EventSeqs(MaxEvents) : PubCall("publish_many", es)
  \/ \E up \in BOOLEAN : PubAppendStep(up)
  \/ \E s \in ClientStreams, start_id \in StartIds :
       ncalls < MaxReads /\ CCreateGroup(s, start_id)
  \/ \E s \in ClientStreams :
       ncalls < MaxReads /\ CReadGroup("c1", s, ">", ReadCount)

SpecPub == Init /\ [][NextPub]_vars

TypeOK ==
  /\ \A c \in Consumers : pc[c] \in {"created", "registering", "read", "handler", "ack",
                                     "sleep", "stopped", "failed"}
  /\ \A s \in Streams : lastDelivered[s] <= lastId[s]

\* ------------------------------------------------------------------ claims
AllAckCalled == UNION {ackCalled[c] : c \in Consumers}

RECURSIVE Flat(_)
Flat(b) ==
  IF b = <<>> THEN <<>>
  ELSE [i \in DOMAIN Head(b).ids |-> <<Head(b).stream, Head(b).ids[i]>>] \o Flat(Tail(b))

\* The messages of the read result still to be dispatched, the one in hand first.
Remaining(c) == Flat(<<[stream |-> cur[c].stream, ids |-> cur[c].ids]>> \o batch[c])

\* C1: the subscriber calls ack for a message only after the handler returned
\* for that message without raising.
C1_AckOnlyAfterHandlerReturned ==
  \A c \in Consumers :
    /\ ackCalled[c] \subseteq handledOk[c]
    /\ ackCalled[c] \cap raised[c] = {}
    /\ pc[c] = "handler" => Msg(cur[c]) \notin ackCalled[c]

C1_Witness ==
  \E c \in Consumers : ackCalled[c] # {} /\ raised[c] # {}

\* C2: a message whose handler returned is acknowledged (no longer pending)
\* before the next message is dispatched, whatever the store calls do.
C2_HandledNeverStaysPending ==
  \A c \in Consumers : \A m \in handledOk[c] :
    \/ pc[c] = "ack" /\ m = Msg(cur[c])
    \/ m[2] \notin PendingIdSet(m[1])

\* C3: a handler exception does not end the loop: _running is untouched, the
\* rest of the batch is dispatched next, in order, and with the batch over the
\* next read_group is issued (unless stop() was called).
C3_HandlerErrorStep(c) ==
  raised'[c] # raised[c] =>
    /\ running'[c] = running[c]
    /\ Remaining(c)' = Tail(Remaining(c))
    /\ pc'[c] = IF Tail(Remaining(c)) # <<>> THEN "handler"
                ELSE IF running[c] THEN "read" ELSE "stopped"
    /\ Tail(Remaining(c)) # <<>> =>
         /\ Len(dispatched'[c]) = Len(dispatched[c]) + 1
         /\ LET d == dispatched'[c][Len(dispatched'[c])]
            IN <<d[1], d[2]>> = Head(Tail(Remaining(c)))

\* C3, over every step of every subscriber: a handler exception never ends the
\* consume loop.
C3_HandlerErrorKeepsLoop == [][\A c \in Consumers : C3_HandlerErrorStep(c)]_vars

C3_Witness ==
  \E c \in Consumers :
    /\ Len(dispatched[c]) = 2
    /\ <<dispatched[c][1][1], dispatched[c][1][2]>> \in raised[c]
    /\ dispatched[c][1][1] = dispatched[c][2][1]
    /\ pc[c] = "read" /\ running[c]

\* C4: a message whose handler raised is never acknowledged by a subscriber,
\* stays pending for its consumer, and read_group with the explicit cursor "0"
\* by the same group and consumer returns it.
C4_FailedStaysPendingAndClaimable ==
  \A c \in Consumers : \A m \in raised[c] :
    /\ m \notin AllAckCalled
    /\ <<m[2], c>> \in pending[m[1]]
    /\ m[2] \in Range(PendingIds(m[1], c, 0, ReadCount))

C4_Witness ==
  \E c \in Consumers : raised[c] # {} /\ handledOk[c] # {} /\ pc[c] = "read"

Appended == UNION {{<<s, i>> : i \in 1 .. lastId[s]} : s \in Streams}

Idle(c) == pc[c] \in {"read", "sleep", "stopped"}

\* Every appended message has been dispatched and its handler is done.
AllProcessed ==
  /\ Appended # {}
  /\ \A c \in Consumers : Idle(c) /\ handlers[c] # <<>>
  /\ \A m \in Appended : \E c \in Consumers : m \in handledOk[c] \cup raised[c]

\* C6, as stated: once all appended messages have been processed, the sets
\* acknowledged by the two subscribers are disjoint and their union is the set
\* of all appended messages.
C6_AckedSetsPartitionAppended ==
  AllProcessed =>
    /\ acked["c1"] \cap acked["c2"] = {}
    /\ acked["c1"] \cup acked["c2"] = Appended

\* C6, amended: the sets acknowledged by the two subscribers are disjoint, each
\* acknowledged message was appended and had its handler return, and their
\* union is the set of messages delivered to the group and no longer pending.
C6_AckedSetsDisjointAndDelivered ==
  /\ acked["c1"] \cap acked["c2"] = {}
  /\ \A c \in Consumers : acked[c] \subseteq handledOk[c] \cap Appended
  /\ \A m \in Appended :
       m \in acked["c1"] \cup acked["c2"] <=>
         /\ groupExists[m[1]]
         /\ createdAt[m[1]] < m[2] /\ m[2] <= lastDelivered[m[1]]
         /\ m[2] \notin PendingIdSet(m[1])

C6_Witness ==
  /\ acked["c1"] # {} /\ acked["c2"] # {}
  /\ \E m1 \in acked["c1"], m2 \in acked["c2"] : m1[1] = m2[1]

\* The ids of stream s in the order the handlers of c were invoked on them.
DispatchedIds(c, s) ==
  LET ds == SelectSeq(dispatched[c], LAMBDA d : d[1] = s)
  IN [i \in DOMAIN ds |-> ds[i][2]]

\* The only subscriber that registered stream s is c.
SoleConsumer(c, s) ==
  \A o \in Consumers : s \in Range(StreamsOf(handlers[o])) => o = c

C10_NoHandlersFailsFast ==
  \A c \in Consumers :
    /\ handlers[c] = <<>> => pc[c] \in {"created", "failed"}
    /\ (pc[c] = "failed" /\ failKind[c] = "ValueError") =>
         /\ groupCalled[c] = {}
         /\ readIssued[c] = {}
         /\ ~running[c]

C10_Witness ==
  \E c \in Consumers : pc[c] = "failed" /\ failKind[c] = "ValueError"

\* A raw client call of kind op is made in this step.
ClientCall(op) == ncalls' = ncalls + 1 /\ ret'.op = op

NewRead(r) == r.op = "read" /\ r.ok /\ r.cursor = ">"

\* Two read_group calls with ">" and count=5 made one right after the other by
\* distinct consumers on a stream with 10 undelivered messages.
C5_ScenarioStep ==
  ( /\ ClientCall("read")
    /\ NewRead(ret) /\ ret.count = 5 /\ ret.avail = 10
    /\ NewRead(ret') /\ ret'.count = 5 /\ ret'.avail = 5
    /\ ret'.consumer # ret.consumer /\ ret'.stream = ret.stream )
  => /\ Range(ret.result) \cap Range(ret'.result) = {}
     /\ Cardinality(Range(ret.result) \cup Range(ret'.result)) = 10
     /\ Range(ret.result) \cup Range(ret'.result) \subseteq Range(log[ret.stream])
     /\ NewIds(ret.stream, 1)' = <<>>

\* What a read_group call with ">" returns was never returned before.
C5_ReadStep ==
  (ClientCall("read") /\ NewRead(ret')) =>
    \A i \in Range(ret'.result) :
      \A c \in Consumers : <<ret'.stream, i>> \notin received[c]

\* C5: however read_group calls with ">" of distinct consumers of the group
\* interleave, no message id is returned to two consumers; two consumers
\* reading with count=5 against 10 undelivered messages claim all 10 between
\* them, none twice.
C5_EachMessageToOneConsumer ==
  /\ [](received["c1"] \cap received["c2"] = {})
  /\ [][C5_ReadStep /\ C5_ScenarioStep]_vars

C5_Witness ==
  /\ NewRead(ret) /\ ret.count = 5 /\ ret.avail = 5
  /\ Cardinality(received["c1"]) = 5 /\ Cardinality(received["c2"]) = 5
  /\ lastId[ret.stream] = 10

\* A create_consumer_group call on a stream whose group exists returns False
\* and leaves the group's cursor and pending set as they were.
C8_CreateStep ==
  ClientCall("create") =>
    LET s == ret'.stream IN
      /\ ret'.ok
      /\ ret'.result = ~groupExists[s]
      /\ groupExists[s] =>
           /\ lastDelivered'[s] = lastDelivered[s]
           /\ pending'[s] = pending[s]

\* C8: create_consumer_group called twice on a stream returns True, then
\* False; the second call raises nothing and leaves the group's last-delivered
\* cursor and pending set untouched, whatever happened in between.
C8_CreateGroupIdempotent ==
  /\ [](\A s \in Streams : \A i \in DOMAIN createRets[s] : createRets[s][i] = (i = 1))
  /\ [][C8_CreateStep]_vars

C8_Witness ==
  /\ ret.op = "create" /\ ret.result = FALSE
  /\ Len(createRets[ret.stream]) = 2
  /\ pending[ret.stream] # {}
  /\ lastDelivered[ret.stream] # StartCursor(ret.stream, ret.start)

C9_AckStep ==
  ClientCall("ack") =>
    LET s == ret'.stream
        hit == {i \in ret'.ids : \E c \in Consumers : <<i, c>> \in pending[s]}
    IN /\ ret'.ok
       /\ ret'.result = Cardinality(hit)
       /\ pending'[s] = {p \in pending[s] : p[1] \notin hit}
       /\ (ret.op = "ack" /\ ret.stream = s /\ ret.ids = ret'.ids) => ret'.result = 0

\* C9: ack returns how many of the given ids were pending and removes exactly
\* those; an id that is not pending any more is no error and counts 0, so the
\* same pending id acknowledged twice gives 1, then 0.
C9_AckCountsPending == [][C9_AckStep]_vars

C9_Witness ==
  /\ ret.op = "ack" /\ ret.result = 0 /\ ret.ids = {1}
  /\ \E c \in Consumers : <<ret.stream, 1>> \in received[c]
  /\ 1 \notin PendingIdSet(ret.stream)

\* C11, as stated (Scenario A): the subscriber, which exists from the start, has
\* a handler for the stream; one message is appended before start() creates
\* the group; the subscriber receives that message: the group's cursor never
\* passes it without delivering it to the subscriber, the handler is invoked on
\* it once, and its acknowledgement leaves the pending set empty.
C11_ScenarioA_SubscriberBeforeAppend ==
  \A c \in Consumers : \A s \in Streams :
    (SoleConsumer(c, s) /\ groupExists[s] /\ createdAt[s] = 1 /\ lastId[s] = 1) =>
      /\ lastDelivered[s] = 1 => <<s, 1>> \in received[c]
      /\ Len(DispatchedIds(c, s)) <= 1
      /\ (<<s, 1>> \in received[c] /\ Idle(c)) => DispatchedIds(c, s) = <<1>>
      /\ <<s, 1>> \in acked[c] => pending[s] = {}

\* C11, amended (Scenario A): when start() has created the group before the one
\* message is appended, the message is delivered to the subscriber by the read
\* that moves the cursor, the handler is invoked on it exactly once, and it is
\* pending for the subscriber until its ack call goes through, which leaves the
\* pending set empty.
C11_ScenarioA_GroupBeforeAppend ==
  \A c \in Consumers : \A s \in Streams :
    (SoleConsumer(c, s) /\ groupExists[s] /\ createdAt[s] = 0 /\ lastId[s] = 1) =>
      /\ lastDelivered[s] = 1 <=> <<s, 1>> \in received[c]
      /\ Len(DispatchedIds(c, s)) <= 1
      /\ (<<s, 1>> \in received[c] /\ Idle(c)) => DispatchedIds(c, s) = <<1>>
      /\ <<s, 1>> \in acked[c] => pending[s] = {}
      /\ (<<s, 1>> \in received[c] /\ <<s, 1>> \notin acked[c]) => pending[s] = {<<1, c>>}
      /\ <<s, 1>> \notin received[c] => pending[s] = {}

C11_Witness ==
  \E c \in Consumers : \E s \in Streams :
    /\ SoleConsumer(c, s) /\ groupExists[s] /\ createdAt[s] = 0 /\ lastId[s] = 1
    /\ dispatched[c] = <<<<s, 1, HandlerOf(handlers[c], s)>>>>
    /\ <<s, 1>> \in acked[c] /\ pending[s] = {}
    /\ pc[c] = "read"

\* The handler of c has been invoked on message i of stream s.
Invoked(c, s, i) ==
  \E k \in DOMAIN dispatched[c] : dispatched[c][k][1] = s /\ dispatched[c][k][2] = i

\* c is running, the only subscriber of stream s, and message i was appended to
\* s after start() created the group on it.
Owed(c, s, i) ==
  /\ running[c] /\ InStart(c) /\ pc[c] # "registering"
  /\ s \in Range(StreamsOf(handlers[c])) /\ SoleConsumer(c, s)
  /\ groupExists[s] /\ createdAt[s] < i /\ i <= lastId[s]

\* C12: under fairness and with the store reachable, a running subscriber that
\* is the only consumer of its group eventually invokes the handler on every
\* message appended to one of its streams after the group was created on it,
\* unless it is stopped or another subscriber joins the stream meanwhile.
C12_AtLeastOnceDelivery ==
  \A c \in Consumers : \A s \in Streams : \A i \in 1 .. MaxInputs :
    Owed(c, s, i) ~> (Invoked(c, s, i) \/ ~running[c] \/ ~SoleConsumer(c, s))

\* The step on which start() leaves the group-creation loop and issues its
\* first read_group call: create_consumer_group has been called for every
\* registered stream, the call reads exactly those streams, and the group
\* exists on each of them.
C13_FirstReadStep(c) ==
  (pc[c] = "registering" /\ pc'[c] = "read") =>
    /\ groupCalled'[c] = Range(StreamsOf(handlers[c]))
    /\ Range(reqStreams'[c]) = groupCalled'[c]
    /\ \A s \in groupCalled'[c] : groupExists'[s]

\* A create_consumer_group call of start() that creates the group puts its
\* cursor at the last id of the stream ("$").
C13_CreateStep(c) ==
  (pc[c] = "registering" /\ groupCalled'[c] # groupCalled[c]) =>
    \A s \in Streams :
      (~groupExists[s] /\ groupExists'[s]) => lastDelivered'[s] = lastId[s]

\* C13: start() creates the group with start_id "$" on every registered stream
\* before its first read_group call, and no message appended to a stream
\* before the group was created on it is ever delivered to a subscriber or
\* dispatched to a handler.
C13_NoHistoryReplayed ==
  /\ [][\A c \in Consumers : C13_FirstReadStep(c) /\ C13_CreateStep(c)]_vars
  /\ [](\A c \in Consumers :
         /\ \A m \in received[c] : groupExists[m[1]] /\ m[2] > createdAt[m[1]]
         /\ \A k \in DOMAIN dispatched[c] :
              dispatched[c][k][2] > createdAt[dispatched[c][k][1]])

C13_Witness ==
  \E c \in Consumers : \E s \in Streams :
    /\ groupExists[s] /\ createdAt[s] >= 1
    /\ DispatchedIds(c, s) # <<>>
    /\ groupCalled[c] = Streams

\* C14: once stop() has been called while start() is under way (creating the
\* groups, blocked in a read, in a handler, in the backoff sleep), the next
\* while test ends the loop: no read_group call is issued with a stop request
\* outstanding, and a subscriber whose stop request was passed is not at work.
C14_NoReadAfterStop ==
  \A c \in Consumers :
    /\ ~issuedAfterStop[c]
    /\ stopCalled[c] => ~running[c]

\* The messages a handler call of c was started for and has neither returned
\* nor raised.
Unfinished(c) ==
  {<<dispatched[c][k][1], dispatched[c][k][2]>> : k \in DOMAIN dispatched[c]}
    \ (handledOk[c] \cup raised[c])

\* C15, as stated: whenever the subscriber has reached STOPPED, through stop()
\* or through cancellation of its task, every handler call that was started
\* has returned or raised.
C15_StoppedAfterHandlersDone ==
  \A c \in Consumers : pc[c] = "stopped" => Unfinished(c) = {}

\* C15, amended: a subscriber that reached STOPPED without its task being
\* cancelled has no handler call left unfinished; while it runs, the only
\* unfinished call is the one in flight; cancellation of the task cuts short at
\* most the one handler call in flight, for which no ack is called, and then
\* the loop is left.
C15_OnlyCancellationCutsHandler ==
  \A c \in Consumers :
    /\ (pc[c] = "stopped" /\ ~cancelled[c]) => Unfinished(c) = {}
    /\ Unfinished(c) = (IF pc[c] = "handler" THEN {Msg(cur[c])} ELSE interrupted[c])
    /\ Cardinality(interrupted[c]) <= 1
    /\ interrupted[c] \cap ackCalled[c] = {}
    /\ interrupted[c] # {} => (pc[c] = "stopped" /\ cancelled[c])

C15_Witness ==
  \E c \in Consumers : \E o \in Consumers :
    /\ pc[c] = "stopped" /\ ~cancelled[c] /\ dispatched[c] # <<>>
    /\ pc[o] = "stopped" /\ interrupted[o] # {}

\* What the step leaves of the store's group state and of the history of c.
C16_NothingDelivered(c) ==
  /\ UNCHANGED <<lastDelivered, pending>>
  /\ received'[c] = received[c] /\ dispatched'[c] = dispatched[c]
  /\ ackCalled'[c] = ackCalled[c] /\ acked'[c] = acked[c]

\* The read_group call of a running subscriber ends: either it delivers
\* messages, the first of which is dispatched, or it raised: then the
\* subscriber is in the backoff sleep, still running, and the failed read
\* delivered, dispatched and acknowledged nothing.
C16_ReadEndsStep(c) ==
  (pc[c] = "read" /\ pc'[c] # "read" /\ running[c]) =>
    \/ pc'[c] = "handler" /\ received'[c] # received[c]
    \/ pc'[c] = "sleep" /\ running'[c] /\ C16_NothingDelivered(c)

\* The backoff sleep ends: the loop is back at its while test and, unless
\* stop() was called, issues the read_group call again, for every registered
\* stream.
C16_RetryStep(c) ==
  (pc[c] = "sleep" /\ pc'[c] # "sleep") =>
    /\ pc'[c] = (IF running[c] THEN "read" ELSE "stopped")
    /\ running[c] => reqStreams'[c] = StreamsOf(handlers[c])
    /\ C16_NothingDelivered(c)

\* A read_group call that does not raise delivers the messages available on
\* its streams, whether or not a failed read came before.
C16_DeliveryStep(c) ==
  (pc[c] = "read" /\ received'[c] # received[c]) =>
    received'[c] \ received[c] =
      UNION {{<<s, i>> : i \in Range(NewIds(s, ReadCount))} : s \in Range(reqStreams[c])}

\* C16: a failure of read_group is caught inside the loop: the subscriber
\* stays running, sleeps, then retries the read; the failed read acknowledges
\* and dispatches nothing, and the read that next finds the store reachable
\* delivers what is available.
C16_ReadErrorBackoffRetry ==
  [][\A c \in Consumers :
       C16_ReadEndsStep(c) /\ C16_RetryStep(c) /\ C16_DeliveryStep(c)]_vars

C16_Witness ==
  \E c \in Consumers :
    /\ pc[c] = "sleep" /\ running[c] /\ dispatched[c] # <<>>
    /\ \E s \in Range(StreamsOf(handlers[c])) : groupExists[s] /\ lastDelivered[s] < lastId[s]

\* The one append attempt of a publish(event) call ends: either the stream
\* named event.event_type has one more entry, with the next id and the fields
\* event.to_stream_data(), nothing else changed in any stream, and that id is
\* what the call returns; or the call raised and no stream changed.
C17_PublishEndsStep ==
  (pub.op = "publish" /\ pub.status = "appending" /\ pub'.status # "appending") =>
    LET e == pub.events[1]
        s == e.event_type.s
        id == lastId[s] + 1
    IN /\ pub'.attempts = 1
       /\ \/ /\ pub'.status = "returned" /\ pub'.ids = <<id>>
             /\ log' = [log EXCEPT ![s] = Append(@, id)]
             /\ data' = [data EXCEPT ![s] = Append(@, ToStreamData(e))]
             /\ Len(data'[s]) = id
             /\ \A f \in DOMAIN e : data'[s][id][f] = Str(e[f])
          \/ /\ pub'.status = "raised" /\ pub'.ids = <<>>
             /\ log' = log /\ data' = data /\ lastId' = lastId

\* C17: publish(event) makes exactly one append attempt; on success the stream
\* named event.event_type grows by exactly one entry whose fields are
\* event.to_stream_data() and the new id is returned; on failure the error
\* reaches the caller, nothing is retried and no stream gets an entry.
C17_PublishOneAttempt ==
  /\ [][C17_PublishEndsStep]_vars
  /\ [](pub.op = "publish" =>
          /\ pub.attempts <= 1
          /\ pub.status # "appending" => pub.attempts = 1)

C17_Witness ==
  /\ pub.op = "publish" /\ pub.status = "raised"
  /\ \E s \in Streams : lastId[s] >= 1
  /\ \E s \in Streams : lastId[s] = 0

\* The fields of the entries of stream s that the first n events of es give,
\* in the order of es.
PrefixData(es, n, s) ==
  LET mine == SelectSeq(SubSeq(es, 1, n), LAMBDA e : e.event_type.s = s)
  IN [i \in DOMAIN mine |-> ToStreamData(mine[i])]

\* The entries appended to stream s since the publisher call was made.
AppendedSinceCall(s) == SubSeq(data[s], pub.base[s] + 1, Len(data[s]))

\* The append of the k-th event of a publish_many call fails: the call raises
\* there, with the ids of the k-1 events before, and the store is as it was.
C18_FailStep ==
  ( /\ pub.op = "publish_many" /\ pub.status = "appending"
    /\ pub'.attempts = pub.attempts + 1 /\ lastId' = lastId ) =>
      /\ pub'.status = "raised"
      /\ pub'.k = pub.k /\ pub'.ids = pub.ids /\ Len(pub.ids) = pub.k - 1
      /\ log' = log /\ data' = data

\* C18: when publish_many fails on its k-th event, the entries appended since
\* the call are those of the first k-1 events, each in the stream of its type
\* and in the caller's order, none of the events k..n is appended, and the
\* call has raised.
C18_PartialPublication ==
  /\ [][C18_FailStep]_vars
  /\ [](( pub.op = "publish_many" /\ pub.status = "raised") =>
          /\ pub.k \in 1 .. Len(pub.events)
          /\ pub.attempts = pub.k
          /\ \A s \in Streams :
               AppendedSinceCall(s) = PrefixData(pub.events, pub.k - 1, s))

C18_Witness ==
  /\ pub.op = "publish_many" /\ pub.status = "raised"
  /\ pub.k = 2 /\ Len(pub.events) = 3
  /\ StreamName(pub.events[1]) = StreamName(pub.events[3])

\* A publish_many call that returned gives one id per event, in the caller's
\* order: the i-th id is the id of the entry that holds the i-th event, and
\* events of the same type have increasing ids, that is stream order.
C19_ReturnedIds ==
  (pub.op = "publish_many" /\ pub.status = "returned") =>
    /\ Len(pub.ids) = Len(pub.events)
    /\ \A i \in DOMAIN pub.events :
         LET s == pub.events[i].event_type.s
         IN /\ pub.ids[i] \in pub.base[s] + 1 .. lastId[s]
            /\ data[s][pub.ids[i]] = ToStreamData(pub.events[i])
    /\ \A i \in DOMAIN pub.events : \A j \in DOMAIN pub.events :
         (i < j /\ pub.events[i].event_type = pub.events[j].event_type)
           => pub.ids[i] < pub.ids[j]
    /\ \A s \in Streams :
         AppendedSinceCall(s) = PrefixData(pub.events, Len(pub.events), s)

\* Scenario B: 3 events of one type published by one publish_many call to a
\* stream whose group has delivered everything before them; a read_group call
\* with count=10 then returns the 3 entries, in the order of the call.
C19_ScenarioStep ==
  ( /\ ClientCall("read") /\ NewRead(ret') /\ ret'.count = ReadCount
    /\ pub.op = "publish_many" /\ pub.status = "returned" /\ Len(pub.events) = 3
    /\ \A i \in 1 .. 3 : pub.events[i].event_type.s = ret'.stream
    /\ lastDelivered[ret'.stream] = pub.base[ret'.stream]
    /\ lastId[ret'.stream] = pub.base[ret'.stream] + 3 )
  => /\ ret'.result = pub.ids
     /\ \A i \in 1 .. 3 :
          data[ret'.stream][ret'.result[i]] = ToStreamData(pub.events[i])

\* C19: publish_many returns one id per event in the caller's order, events of
\* the same type are in their stream in that order, and a single consumer
\* reading with count=10 after 3 events were published this way to one stream
\* receives all 3 in one read call, in the original order.
C19_PublishManyOrder == [](C19_ReturnedIds) /\ [][C19_ScenarioStep]_vars

C19_Witness ==
  /\ NewRead(ret) /\ ret.count = ReadCount /\ Len(ret.result) = 3
  /\ pub.op = "publish_many" /\ pub.status = "returned"
  /\ ret.result = pub.ids
  /\ pub.events[1] # pub.events[2]

\* The consumers message i of stream s was delivered to.
DeliveredTo(s, i) == {c \in Consumers : <<s, i>> \in received[c]}

\* C20, as stated: the group's read position advances past a message only once
\* it has been acknowledged: every message delivered to the group, that is
\* after the group's creation and at or before its last-delivered cursor, has
\* been acknowledged (is no longer pending).
C20_CursorOnlyPastAcknowledged ==
  \A s \in Streams : groupExists[s] =>
    \A i \in createdAt[s] + 1 .. lastDelivered[s] : i \notin PendingIdSet(s)

\* C20, amended: the group's read position advances when a message is
\* delivered, whether or not the messages before it were acknowledged: every
\* message after the group's creation and at or before the cursor has been
\* delivered to exactly one consumer and is pending for that consumer until
\* its ack call goes through; no message after the cursor has been delivered
\* or is pending.
C20_CursorIsDeliveryPosition ==
  \A s \in Streams : groupExists[s] =>
    /\ createdAt[s] <= lastDelivered[s] /\ lastDelivered[s] <= lastId[s]
    /\ \A i \in 1 .. lastId[s] :
         IF createdAt[s] < i /\ i <= lastDelivered[s]
         THEN /\ Cardinality(DeliveredTo(s, i)) = 1
              /\ \A c \in Consumers :
                   <<i, c>> \in pending[s] <=>
                     (c \in DeliveredTo(s, i) /\ <<s, i>> \notin acked[c])
         ELSE DeliveredTo(s, i) = {} /\ i \notin PendingIdSet(s)

C20_Witness ==
  \E s \in Streams : \E c \in Consumers :
    /\ groupExists[s] /\ lastDelivered[s] >= 2
    /\ <<1, c>> \in pending[s] /\ <<s, 1>> \in raised[c]
    /\ 2 \notin PendingIdSet(s) /\ \E o \in Consumers : <<s, 2>> \in acked[o]

\* The entries <<id, consumer>> of stream s delivered by read_group with ">".
DeliveredEntries(s) ==
  UNION {{<<m[2], c>> : m \in {r \in received[c] : r[1] = s}} : c \in Consumers}

\* The entries <<id, consumer>> of stream s whose ack call went through.
AckedEntries(s) ==
  UNION {{<<m[2], c>> : m \in {r \in acked[c] : r[1] = s}} : c \in Consumers}

\* C21: every message read_group returns with ">" is recorded as pending for
\* the consumer it was returned to and stays pending until ack is called for
\* it: the group's pending set is the set of delivered messages minus the
\* acknowledged ones, and each pending id has one owner, the consumer it was
\* delivered to.
C21_PendingIsDeliveredMinusAcked ==
  \A s \in Streams :
    /\ pending[s] = DeliveredEntries(s) \ AckedEntries(s)
    /\ \A p \in pending[s] : \A q \in pending[s] : p[1] = q[1] => p = q
    /\ \A p \in pending[s] : <<s, p[1]>> \in received[p[2]]

C21_Witness ==
  \E s \in Streams :
    /\ \E p \in pending[s] : \E a \in AckedEntries(s) : p[2] # a[2]
    /\ DeliveredEntries(s) = pending[s] \cup AckedEntries(s)

\* The ids of stream s the group has acknowledged: delivered and not pending.
Acknowledged(s) == {i \in 1 .. lastDelivered[s] : i \notin PendingIdSet(s)} 

\* C22: a message appended to a stream on which a consumer group exists is
\* never removed from the stream (for example by the maxlen trimming of an
\* append) before the group has acknowledged it.
C22_NoneDroppedBeforeAck ==
  \A s \in Streams :
    groupExists[s] =>
      \A i \in (createdAt[s] + 1) .. lastId[s] :
        i \in Range(log[s]) \/ (i > createdAt[s] /\ i \in Acknowledged(s))

\* The fields a variant declares without a default (events.py:29-31, 53-55).
RequiredFields(e) ==
  IF StreamName(e) = "task.created" THEN {"project_id", "task_id", "title"}
  ELSE {"project_id", "task_id", "completed_by_user_id"}

\* The values of the kind of v an event field may hold.
ValuesLike(v) ==
  IF v.t = "str" THEN {Text(x) : x \in {"x", "None", "medium", "[]"}}
  ELSE {[t |-> v.t, n |-> n, s |-> ""] : n \in 0 .. 50}

\* The events the publisher call under way has appended, each with the map
\* the store holds for it.
PublishedMaps ==
  {<<pub.events[j], data[StreamName(pub.events[j])][pub.ids[j]]>> :
     j \in 1 .. Len(pub.ids)}

\* C23: for every event variant, to_stream_data() returns a flat map with one
\* string value per model field (event_id, timestamp and event_type
\* included), no field of the event holds a list or nested object, and every
\* required field can be reconstructed from the map: its string is the one
\* str() gives for the original value and for no other value of its kind.
C23_FlatMapRoundTrip ==
  \A em \in PublishedMaps :
    LET e == em[1]
        m == em[2]
    IN /\ DOMAIN m = DOMAIN e
       /\ \A f \in DOMAIN m : DOMAIN m[f] = {"k", "n", "s"}
       /\ \A f \in DOMAIN e : e[f].t # "list"
       /\ \A f \in RequiredFields(e) :
            {v \in ValuesLike(e[f]) : Str(v) = m[f]} = {e[f]}

\* C24: the subscribers of the group dispatch each message id to a handler at
\* most once: no message appears twice in what the loops have dispatched, and
\* a message whose handler raised is still pending for the consumer it was
\* delivered to.
C24_DispatchedAtMostOnce ==
  /\ \A c \in Consumers : \A o \in Consumers :
       \A k \in DOMAIN dispatched[c] : \A j \in DOMAIN dispatched[o] :
         (dispatched[c][k][1] = dispatched[o][j][1] /\
          dispatched[c][k][2] = dispatched[o][j][2]) => (c = o /\ k = j)
  /\ \A c \in Consumers : \A m \in raised[c] : <<m[2], c>> \in pending[m[1]]

C24_Witness ==
  \E c \in Consumers : \E m \in raised[c] :
    /\ pc[c] = "read" /\ batch[c] = <<>>
    /\ \E k \in DOMAIN dispatched[c] :
         /\ <<dispatched[c][k][1], dispatched[c][k][2]>> = m
         /\ k < Len(dispatched[c])
         /\ acked[c] # {}

\* The handler invocations of c that have neither returned nor raised.
InFlight(c) == Len(dispatched[c]) - Cardinality(handledOk[c] \cup raised[c])

\* A handler invocation of c starts: from the read that returned, from the
\* handler that raised, or from the ack call that ended.
C25_DispatchStep ==
  \A c \in Consumers :
    Len(dispatched'[c]) > Len(dispatched[c]) =>
      /\ Len(dispatched'[c]) = Len(dispatched[c]) + 1
      /\ pc'[c] = "handler"
      /\ pc[c] \in {"read", "handler", "ack"}
      /\ pc[c] = "handler" => Msg(cur[c]) \in raised'[c] \ handledOk'[c]
      /\ pc[c] = "ack" => Msg(cur[c]) \in handledOk[c] \cap ackCalled[c]

\* C25: within one subscriber at most one handler invocation is in flight; the
\* handler for the next message starts only after the previous one returned
\* or raised and, on success, after its ack call ended; no read_group call is
\* in flight while a batch is being dispatched.
C25_OneHandlerInFlight ==
  /\ [](\A c \in Consumers :
          /\ InFlight(c) = (IF pc[c] = "handler" THEN 1 ELSE 0)
          /\ pc[c] \in {"handler", "ack"} => reqStreams[c] = <<>>
          /\ pc[c] = "read" => (batch[c] = <<>> /\ cur[c] = NoCur))
  /\ [][C25_DispatchStep]_vars

C25_Witness ==
  \E c \in Consumers :
    /\ pc[c] = "handler" /\ Len(dispatched[c]) >= 2
    /\ <<dispatched[c][1][1], dispatched[c][1][2]>> \in acked[c]
    /\ \E k \in DOMAIN dispatched[c] : <<dispatched[c][k][1], dispatched[c][k][2]>> \in raised[c]

\* on(s)(h) is called on subscriber c: s is bound to h and to nothing else, the
\* other streams of c and the other subscribers keep their handlers.
C26_OnStep ==
  nregs' = nregs + 1 =>
    \E c \in Consumers : \E s \in Streams :
      /\ HandlerOf(handlers'[c], s) = OtherHandler(handlers[c], s)
      /\ Cardinality({i \in DOMAIN handlers'[c] : handlers'[c][i].stream = s}) = 1
      /\ \A t \in Streams \ {s} : HandlerOf(handlers'[c], t) = HandlerOf(handlers[c], t)
      /\ \A o \in Consumers \ {c} : handlers'[o] = handlers[o]

\* A handler invocation of c starts for a message of a stream on() was not
\* called for since the message was read: the handler is the one bound now.
C26_DispatchStep ==
  \A c \in Consumers :
    Len(dispatched'[c]) > Len(dispatched[c]) =>
      LET d == dispatched'[c][Len(dispatched'[c])]
      IN d[1] \notin rebound[c] => d[3] = HandlerOf(handlers[c], d[1])

\* C26: calling on(stream) twice for the same stream leaves one handler bound
\* to it, the one registered last; every message read from the stream
\* afterwards is dispatched to that handler and not to the earlier one;
\* registrations for other streams are unchanged.
C26_LastRegistrationWins == [][C26_OnStep /\ C26_DispatchStep]_vars

C26_Witness ==
  \E c \in Consumers :
    /\ dispatched[c] # <<>>
    /\ dispatched[c][Len(dispatched[c])][3] = "h2"
    /\ Len(handlers[c]) = 1 /\ handlers[c][1].handler = "h2"

\* C27: every stream the consume loop passes to read_group has had
\* create_consumer_group called for it by this start() invocation, also when
\* on() registers a new stream while the loop is running.
C27_ReadOnlyCreatedGroups ==
  \A c \in Consumers : readIssued[c] \subseteq groupCalled[c]

\* C28: when the loop has ended because of stop() (no cancellation), every
\* message a read_group call returned to the subscriber has had its handler
\* invoked: none is left pending without having been dispatched.
C28_StoppedLeavesNoneUndispatched ==
  \A c \in Consumers :
    (pc[c] = "stopped" /\ ~cancelled[c]) =>
      /\ \A m \in received[c] : Invoked(c, m[1], m[2])
      /\ \A s \in Streams : \A p \in pending[s] : p[2] = c => Invoked(c, s, p[1])
      /\ batch[c] = <<>> /\ cur[c] = NoCur

C28_Witness ==
  \E c \in Consumers :
    /\ pc[c] = "stopped" /\ ~cancelled[c]
    /\ Cardinality(received[c]) >= 2
    /\ \E s \in Streams : \E p \in pending[s] : p[2] = c

\* create_consumer_group raises in start() of c: the store is left as it is.
C29_CreateFailsStep ==
  \A c \in Consumers :
    (failKind'[c] = "ConnectionError" /\ failKind[c] # "ConnectionError") =>
      /\ pc[c] = "registering" /\ pc'[c] = "failed"
      /\ groupExists' = groupExists /\ lastDelivered' = lastDelivered
      /\ pending' = pending /\ log' = log

\* start() of c has ended with an exception: nothing follows.
C29_NoRetryStep ==
  \A c \in Consumers :
    pc[c] = "failed" =>
      /\ pc'[c] = "failed" /\ groupCalled'[c] = groupCalled[c]
      /\ readIssued'[c] = readIssued[c] /\ running'[c] = running[c]

\* C29: if create_consumer_group fails during start() with anything other
\* than group-already-exists, the error leaves start() without retry: the
\* subscriber never runs, no read_group call is issued, and the groups created
\* for the earlier streams stay created.
C29_CreateFailurePropagates ==
  /\ [](\A c \in Consumers :
          failKind[c] = "ConnectionError" =>
            /\ pc[c] = "failed" /\ ~running[c]
            /\ readIssued[c] = {} /\ reqStreams[c] = <<>> /\ received[c] = {}
            /\ \A k \in 1 .. (iter[c].idx - 1) : groupExists[handlers[c][k].stream])
  /\ [][C29_CreateFailsStep /\ C29_NoRetryStep]_vars

C29_Witness ==
  \E c \in Consumers :
    /\ failKind[c] = "ConnectionError" /\ iter[c].idx = 2
    /\ groupExists[handlers[c][1].stream] /\ ~groupExists[handlers[c][2].stream]

\* Some subscriber makes a handler invocation for message i of stream s.
InvokedAny(s, i) == \E c \in Consumers : Invoked(c, s, i)

\* The group's cursor on s moves: a read_group call of some subscriber has
\* returned, and it returned every entry between the old and the new cursor.
C30_CursorStep ==
  \A s \in Streams :
    (groupExists[s] /\ lastDelivered'[s] # lastDelivered[s]) =>
      \E c \in Consumers :
        /\ pc[c] = "read" /\ lastDelivered'[s] > lastDelivered[s]
        /\ {<<s, i>> : i \in {j \in Range(log[s]) :
                               lastDelivered[s] < j /\ j <= lastDelivered'[s]}}
             \subseteq received'[c] \ received[c]

\* C30: a subscriber started again with a group that exists resumes from the
\* group's stored last-delivered position, not from "$" at restart time:
\* messages appended to a registered stream while no start() was under way
\* are not skipped (once the cursor is past them they have been dispatched or
\* are in the batch in hand), and no message is dispatched twice.
C30_RestartResumesFromCursor ==
  /\ [](/\ \A m \in backlog :
             m[2] <= lastDelivered[m[1]] =>
               \E c \in Consumers :
                 /\ m \in received[c]
                 /\ Invoked(c, m[1], m[2]) \/ pc[c] \in {"handler", "ack"}
        /\ \A c \in Consumers : \A k \in DOMAIN dispatched[c] :
             \A j \in DOMAIN dispatched[c] :
               (dispatched[c][k][1] = dispatched[c][j][1] /\
                dispatched[c][k][2] = dispatched[c][j][2]) => k = j)
  /\ [][C30_CursorStep]_vars

C30_Witness ==
  /\ restarts >= 1
  /\ \E m \in backlog :
       /\ Invoked("c1", m[1], m[2])
       /\ \E j \in 1 .. (m[2] - 1) :
            /\ <<m[1], j>> \notin backlog
            /\ Invoked("c1", m[1], j)

====
